---- MODULE Spec2Model ----
(***************************************************************************)
(* Model of the comment-thread endpoint: api/comments.py (the GET handler) *)
(* and api/_youtube.py (identifier extraction, parameter normalisation and *)
(* the two-level pagination of fetch_comment_threads).                     *)
(*                                                                         *)
(* Python strings are sequences of one-character strings, so that strip(), *)
(* lower(), int() and the regular expressions are computed, not assumed.   *)
(* An Optional[int] is <<>> (None) or <<n>>.                               *)
(***************************************************************************)
EXTENDS Integers, Sequences, FiniteSets, TLC

\* ------------------------------------------------------------------------
\* Bounds of the model
\* ------------------------------------------------------------------------

\* Longest item list of one reply-listing (comments) response.
MaxBatch == 2

\* Largest maxRepliesPerThread a request of the reply-loop family asks for.
MaxBudget == 2

\* ------------------------------------------------------------------------
\* Characters and strings
\* ------------------------------------------------------------------------

\* Python's None, set apart from every string of characters.
None == <<"None">>

LowerLetters ==
    <<"a","b","c","d","e","f","g","h","i","j","k","l","m",
      "n","o","p","q","r","s","t","u","v","w","x","y","z">>

UpperLetters ==
    <<"A","B","C","D","E","F","G","H","I","J","K","L","M",
      "N","O","P","Q","R","S","T","U","V","W","X","Y","Z">>

Digits == <<"0","1","2","3","4","5","6","7","8","9">>

Range(s) == {s[i] : i \in 1..Len(s)}

Whitespace == {" ", "\t"}

IndexOf(s, c) == CHOOSE i \in 1..Len(s) : s[i] = c

\* str.lower() on one character.
LowerChar(c) ==
    IF c \in Range(UpperLetters) THEN LowerLetters[IndexOf(UpperLetters, c)] ELSE c

\* str.lower()
Lower(s) == [i \in 1..Len(s) |-> LowerChar(s[i])]

RECURSIVE LStrip(_, _)
\* str.lstrip(chars)
LStrip(s, chars) ==
    IF s # <<>> /\ Head(s) \in chars THEN LStrip(Tail(s), chars) ELSE s

RECURSIVE RStrip(_, _)
\* the right half of str.strip()
RStrip(s, chars) ==
    IF s # <<>> /\ s[Len(s)] \in chars
    THEN RStrip(SubSeq(s, 1, Len(s) - 1), chars)
    ELSE s

\* str.strip()
Strip(s) == RStrip(LStrip(s, Whitespace), Whitespace)

\* s[from:] of Python, with a 1-based first index.
Drop(s, from) == SubSeq(s, from, Len(s))

\* Whether t occurs in s at position i.
MatchAt(s, i, t) ==
    /\ i >= 1
    /\ i + Len(t) - 1 <= Len(s)
    /\ SubSeq(s, i, i + Len(t) - 1) = t

\* str.find(t): the first position of t in s, 0 when there is none.
Find(s, t) ==
    IF \E i \in 1..Len(s) : MatchAt(s, i, t)
    THEN CHOOSE i \in 1..Len(s) :
            MatchAt(s, i, t) /\ \A j \in 1..(i - 1) : ~MatchAt(s, j, t)
    ELSE 0

\* The first position of s holding a character of chars, Len(s) + 1 if none.
FirstOf(s, chars) ==
    IF \E i \in 1..Len(s) : s[i] \in chars
    THEN CHOOSE i \in 1..Len(s) :
            s[i] \in chars /\ \A j \in 1..(i - 1) : s[j] \notin chars
    ELSE Len(s) + 1

EndsWith(s, t) == Len(t) <= Len(s) /\ SubSeq(s, Len(s) - Len(t) + 1, Len(s)) = t

RECURSIVE DigitsValue(_, _)
\* The value of a run of decimal digits, acc being the value read so far.
DigitsValue(s, acc) ==
    IF s = <<>> THEN acc
    ELSE DigitsValue(Tail(s), 10 * acc + (IndexOf(Digits, Head(s)) - 1))

\* int(str): surrounding whitespace is ignored, one sign is allowed, single
\* underscores may separate digits; anything else raises ValueError.
ParseInt(raw) ==
    LET s == Strip(raw)
        signed == s # <<>> /\ Head(s) \in {"+", "-"}
        body == IF signed THEN Tail(s) ELSE s
        wellFormed ==
            /\ body # <<>>
            /\ \A i \in 1..Len(body) : body[i] \in Range(Digits) \cup {"_"}
            /\ body[1] # "_"
            /\ body[Len(body)] # "_"
            /\ \A i \in 1..(Len(body) - 1) : ~(body[i] = "_" /\ body[i + 1] = "_")
        digits == SelectSeq(body, LAMBDA c : c # "_")
        magnitude == DigitsValue(digits, 0)
    IN  IF wellFormed
        THEN [ok |-> TRUE,
              val |-> IF signed /\ Head(s) = "-" THEN 0 - magnitude ELSE magnitude]
        ELSE [ok |-> FALSE, val |-> 0]

Min(a, b) == IF a <= b THEN a ELSE b

Max(a, b) == IF a >= b THEN a ELSE b

\* ------------------------------------------------------------------------
\* api/_youtube.py: pure functions
\* ------------------------------------------------------------------------

\* The message of the RuntimeError of get_env_api_key.
MissingKeyMessage ==
    "YOUTUBE_API_KEY environment variable is required to fetch YouTube comments."

\* get_env_api_key without the strip(): a blank credential passes.
get_env_api_key_Unstripped(environ) ==
    LET api_key == IF environ = None THEN <<>> ELSE environ
    IN  IF api_key = <<>>
        THEN [ok |-> FALSE, key |-> <<>>, error |-> MissingKeyMessage]
        ELSE [ok |-> TRUE, key |-> api_key, error |-> ""]

\* get_env_api_key: the stripped credential, or the RuntimeError when it is
\* unset (environ.get's default ""), empty or whitespace only.
get_env_api_key(environ) ==
    LET api_key == Strip(IF environ = None THEN <<>> ELSE environ)
    IN  IF api_key = <<>>
        THEN [ok |-> FALSE, key |-> <<>>, error |-> MissingKeyMessage]
        ELSE [ok |-> TRUE, key |-> api_key, error |-> ""]

\* Length of the identifier the two regular expressions look for.
IdLen == 11

\* The character class [A-Za-z0-9_-].
IdChars == Range(LowerLetters) \cup Range(UpperLetters) \cup Range(Digits) \cup {"_", "-"}

\* The characters a URL scheme may hold (urllib.parse.scheme_chars).
SchemeChars == Range(LowerLetters) \cup Range(UpperLetters) \cup Range(Digits) \cup {"+", "-", "."}

ShortHost == <<"y","o","u","t","u",".","b","e">>

LongHostSuffix == <<"y","o","u","t","u","b","e",".","c","o","m">>

EmbedPrefix == <<"/","e","m","b","e","d","/">>

\* urllib.parse.urlparse, as far as netloc, path and query go: an optional
\* scheme up to the first ":", a netloc after "//" up to the first of "/?#",
\* the fragment cut at "#", the query cut at "?".
urlparse(url) ==
    LET colon == Find(url, <<":">>)
        hasScheme ==
            /\ colon > 1
            /\ url[1] \in Range(LowerLetters) \cup Range(UpperLetters)
            /\ \A i \in 1..(colon - 1) : url[i] \in SchemeChars
        afterScheme == IF hasScheme THEN Drop(url, colon + 1) ELSE url
        hasNetloc == MatchAt(afterScheme, 1, <<"/", "/">>)
        authority == IF hasNetloc THEN Drop(afterScheme, 3) ELSE <<>>
        delim == FirstOf(authority, {"/", "?", "#"})
        netloc == SubSeq(authority, 1, delim - 1)
        afterNetloc == IF hasNetloc THEN Drop(authority, delim) ELSE afterScheme
        hash == FirstOf(afterNetloc, {"#"})
        noFragment == SubSeq(afterNetloc, 1, hash - 1)
        mark == FirstOf(noFragment, {"?"})
    IN  [netloc |-> netloc,
         path |-> SubSeq(noFragment, 1, mark - 1),
         query |-> Drop(noFragment, mark + 1)]

RECURSIVE Split(_, _)
\* str.split(sep) for a one-character separator.
Split(s, sep) ==
    LET i == FirstOf(s, {sep})
    IN  IF i > Len(s) THEN <<s>>
        ELSE <<SubSeq(s, 1, i - 1)>> \o Split(Drop(s, i + 1), sep)

\* urllib.parse.parse_qs(query)[name]: the values of the name=value pairs of
\* that name, in order; pairs without "=" and blank values are dropped.
parse_qs(query, name) ==
    LET pairs == Split(query, "&")
        eq(p) == FirstOf(p, {"="})
        keep(p) ==
            /\ eq(p) <= Len(p)
            /\ SubSeq(p, 1, eq(p) - 1) = name
            /\ Drop(p, eq(p) + 1) # <<>>
        kept == SelectSeq(pairs, keep)
    IN  [i \in 1..Len(kept) |-> Drop(kept[i], eq(kept[i]) + 1)]

\* Whether [A-Za-z0-9_-]{11} matches s at position i.
IdAt(s, i) ==
    /\ i >= 1
    /\ i + IdLen - 1 <= Len(s)
    /\ \A j \in i..(i + IdLen - 1) : s[j] \in IdChars

\* re.search(r"([A-Za-z0-9_-]{11})", s): group 1 of the leftmost match, None
\* when there is none.
SearchId(s) ==
    IF \E i \in 1..Len(s) : IdAt(s, i)
    THEN LET i == CHOOSE k \in 1..Len(s) :
                    IdAt(s, k) /\ \A j \in 1..(k - 1) : ~IdAt(s, j)
         IN  SubSeq(s, i, i + IdLen - 1)
    ELSE None

EmbedAt(s, i) == MatchAt(s, i, EmbedPrefix) /\ IdAt(s, i + Len(EmbedPrefix))

\* re.search(r"/embed/([A-Za-z0-9_-]{11})", s): group 1 of the leftmost match.
SearchEmbed(s) ==
    IF \E i \in 1..Len(s) : EmbedAt(s, i)
    THEN LET i == CHOOSE k \in 1..Len(s) :
                    EmbedAt(s, k) /\ \A j \in 1..(k - 1) : ~EmbedAt(s, j)
         IN  SubSeq(s, i + Len(EmbedPrefix), i + Len(EmbedPrefix) + IdLen - 1)
    ELSE None

\* extract_video_id_from_url: the short-link path, else the v parameter or the
\* embed segment of a youtube.com URL, else the first 11-character run of the
\* whole URL, else None.
extract_video_id_from_url(url) ==
    LET parsed == urlparse(url)
        vid == LStrip(parsed.path, {"/"})
        v == parse_qs(parsed.query, <<"v">>)
    IN  IF parsed.netloc = ShortHost
        THEN (IF vid # <<>> THEN vid ELSE None)
        ELSE IF EndsWith(parsed.netloc, LongHostSuffix) /\ v # <<>>
        THEN v[1]
        ELSE IF EndsWith(parsed.netloc, LongHostSuffix) /\ SearchEmbed(parsed.path) # None
        THEN SearchEmbed(parsed.path)
        ELSE SearchId(url)

\* Default page size of normalize_params.
DefaultMaxResults == 20

\* Largest page size normalize_params lets through.
MaxPageSize == 100

Relevance == <<"r","e","l","e","v","a","n","c","e">>

Time == <<"t","i","m","e">>

\* normalize_params without the lower(): only the exact spellings pass.
normalize_params_NoCaseFold(max_results, order) ==
    LET mr == IF max_results = <<>> THEN DefaultMaxResults
              ELSE Max(1, Min(max_results[1], MaxPageSize))
        od == IF order = None \/ order = <<>> THEN Relevance ELSE order
    IN  <<mr, IF od \in {Relevance, Time} THEN od ELSE Relevance>>

\* normalize_params: max_results is <<>> (None) or <<n>>, order is None or a
\* string.
normalize_params(max_results, order) ==
    LET mr == IF max_results = <<>> THEN DefaultMaxResults
              ELSE Max(1, Min(max_results[1], MaxPageSize))
        od == Lower(IF order = None \/ order = <<>> THEN Relevance ELSE order)
    IN  <<mr, IF od \in {Relevance, Time} THEN od ELSE Relevance>>

\* ------------------------------------------------------------------------
\* api/comments.py: _parse_query
\* ------------------------------------------------------------------------

\* maxRepliesPerThread of a request that does not give one.
DefaultMaxReplies == 20

\* The spellings of includeReplies that switch the reply loop on.
Truthy == {<<"1">>, <<"t","r","u","e">>, <<"y","e","s">>, <<"o","n">>}

\* s or None
OrNone(s) == IF s = <<>> THEN None ELSE s

\* _parse_query on the values get_one yields for the seven parameters ("" for
\* a parameter the request does not carry). ok is FALSE when int() raises
\* ValueError, and then q holds nothing meaningful.
ParseQuery(raw) ==
    LET mr == ParseInt(raw.maxResults)
        mrpt == ParseInt(raw.maxRepliesPerThread)
    IN  [ok |-> /\ (raw.maxResults # <<>> => mr.ok)
                /\ (raw.maxRepliesPerThread # <<>> => mrpt.ok),
         q |-> [url |-> Strip(raw.url),
                videoId |-> Strip(raw.videoId),
                pageToken |-> OrNone(Strip(raw.pageToken)),
                order |-> OrNone(Strip(raw.order)),
                includeReplies |-> Lower(raw.includeReplies) \in Truthy,
                maxResults |-> IF raw.maxResults # <<>> THEN <<mr.val>> ELSE <<>>,
                maxRepliesPerThread |->
                    IF raw.maxRepliesPerThread # <<>> THEN mrpt.val
                    ELSE DefaultMaxReplies]]

\* ResolveVideoId taking the url itself when nothing can be extracted from it.
ResolveVideoId_FallingBackToUrl(q) ==
    IF q.videoId = <<>> /\ q.url # <<>>
    THEN (IF extract_video_id_from_url(q.url) = None THEN q.url
          ELSE extract_video_id_from_url(q.url))
    ELSE q.videoId

\* ResolveVideoId asking the url first and videoId only when the url yields
\* nothing.
ResolveVideoId_UrlFirst(q) ==
    IF q.url # <<>> /\ extract_video_id_from_url(q.url) # None
    THEN extract_video_id_from_url(q.url)
    ELSE q.videoId

\* The identifier do_GET works with: videoId, else the one extracted from
\* url, else "".
ResolveVideoId(q) ==
    IF q.videoId = <<>> /\ q.url # <<>>
    THEN (IF extract_video_id_from_url(q.url) = None THEN <<>>
          ELSE extract_video_id_from_url(q.url))
    ELSE q.videoId

\* ------------------------------------------------------------------------
\* Inputs: the request, the environment and what the upstream may answer
\* ------------------------------------------------------------------------

UrlShort == <<"h","t","t","p","s",":","/","/","y","o","u","t","u",".","b","e","/","a","b","c">>

UrlShortEmpty == <<"h","t","t","p","s",":","/","/","y","o","u","t","u",".","b","e","/">>

UrlWatch == <<"h","t","t","p","s",":","/","/","w","w","w",".","y","o","u","t","u","b","e",".","c","o","m","/","w","a","t","c","h","?","v","=","d","Q","w","4","w","9","W","g","X","c","Q">>

UrlOther == <<"h","t","t","p","s",":","/","/","e","x","a","m","p","l","e",".","c","o","m","/","x">>

VideoA == <<"v","i","d","A">>

\* The decimal spelling of a small integer.
IntLiteral(n) == IF n < 0 THEN <<"-", Digits[1 - n]>> ELSE <<Digits[n + 1]>>

\* Requests that exercise everything before the reply loops: includeReplies
\* is absent, every other parameter varies.
FrontRequests ==
    [url : {<<>>, UrlShort, UrlShortEmpty, UrlWatch, UrlOther},
     videoId : {<<>>, VideoA},
     pageToken : {<<>>, <<"P","1">>},
     order : {<<>>, <<"T","I","M","E">>},
     includeReplies : {<<>>},
     maxResults : {<<>>, <<"a","b","c">>, <<"2","0","0">>},
     maxRepliesPerThread : {<<>>, <<" ">>}]

\* Requests that exercise the reply loops: includeReplies and the reply
\* budget vary, the other parameters are plain.
LoopRequests ==
    [url : {<<>>},
     videoId : {VideoA},
     pageToken : {<<>>},
     order : {<<>>},
     includeReplies : {<<"T","R","U","E">>, <<" ","t","r","u","e">>},
     maxResults : {<<>>},
     maxRepliesPerThread : {IntLiteral(n) : n \in (0 - 1)..MaxBudget}]

\* Requests whose videoId is blank or padded with whitespace, with and
\* without a url an identifier can be extracted from.
PaddedRequests ==
    [url : {<<>>, UrlShort},
     videoId : {<<" ">>, <<" ">> \o VideoA},
     pageToken : {<<>>},
     order : {<<>>},
     includeReplies : {<<>>},
     maxResults : {<<>>},
     maxRepliesPerThread : {<<>>}]

Requests == FrontRequests \cup LoopRequests \cup PaddedRequests

\* YOUTUBE_API_KEY: unset, empty, blank, or set.
Environs == {None, <<>>, <<" ">>, <<" ", "K">>}

ThreadIds == {"t1", "t2"}

\* The id of the top-level comment of a thread.
TopLevelId(t) == IF t = "t1" THEN "c1" ELSE "c2"

\* The reply lists a thread item may carry inline.
InlineLists == {<<>>, <<"r1">>, <<"r2", "r1">>}

\* snippet.totalReplyCount of a thread item: none, no more than the inline
\* replies of some item, more than the inline replies of every item.
ReplyCounts == {0, 1, 3}

\* The items of a commentThreads response: id, the id of the top-level
\* comment, snippet.totalReplyCount and replies.comments.
ThreadItems ==
    {[id |-> t, topLevelComment |-> TopLevelId(t), totalReplyCount |-> n, replies |-> r] :
        t \in ThreadIds, n \in ReplyCounts, r \in InlineLists}

\* A page of threads holds each thread once.
ThreadPages ==
    {<<>>} \cup {<<a>> : a \in ThreadItems}
           \cup {<<a, b>> : <<a, b>> \in {p \in ThreadItems \X ThreadItems : p[1].id # p[2].id}}

\* nextPageToken of a commentThreads response.
ThreadTokens == {None, <<"P","2">>}

\* The replies the upstream lists for a thread, oldest first; a listing may
\* hold again what was inline in the thread item.
ReplySource(i) == IF i % 2 = 1 THEN "r1" ELSE "r2"

\* The items of a comments response: the first n replies of the thread, for
\* any n up to MaxBatch, whatever maxResults asked for.
ReplyBatches == {[i \in 1..n |-> ReplySource(i)] : n \in 0..MaxBatch}

\* nextPageToken of the k-th response of a request: none, or a fresh token.
ReplyTokens(k) == {None, <<"R", Digits[k + 1]>>}

\* ------------------------------------------------------------------------
\* State
\* ------------------------------------------------------------------------

VARIABLES
    environ,            \* YOUTUBE_API_KEY of the process environment
    query,              \* the query parameters of the GET request
    pc,                 \* where do_GET / fetch_comment_threads stands
    args,               \* the arguments of the fetch_comment_threads call
    calls,              \* every _http_get of the request, in order, with its outcome
    items,              \* data["items"] of the commentThreads response
    next_page_token,    \* data["nextPageToken"] of the commentThreads response
    idx,                \* position of the for loop over items
    replies_payload,    \* replies of the thread being processed
    fetched,            \* replies fetched by the while loop of this thread
    next_token,         \* continuation token of the while loop of this thread
    normalized_threads, \* threads finished so far
    responses           \* what _send wrote: <<>> or <<[code, body]>>

vars ==
    <<environ, query, pc, args, calls, items, next_page_token, idx,
      replies_payload, fetched, next_token, normalized_threads, responses>>

\* The part of the state fetch_comment_threads works on.
fetchVars ==
    <<items, next_page_token, idx, replies_payload, fetched, next_token,
      normalized_threads>>

NoArgs ==
    [video_id |-> <<>>, api_key |-> <<>>, max_results |-> 0, page_token |-> None,
     order |-> <<>>, include_replies |-> FALSE, max_replies_per_thread |-> 0]

Init ==
    /\ environ \in Environs
    /\ query \in Requests
    /\ pc = "start"
    /\ args = NoArgs
    /\ calls = <<>>
    /\ items = <<>>
    /\ next_page_token = None
    /\ idx = 0
    /\ replies_payload = <<>>
    /\ fetched = 0
    /\ next_token = None
    /\ normalized_threads = <<>>
    /\ responses = <<>>

\* ------------------------------------------------------------------------
\* api/comments.py: handler
\* ------------------------------------------------------------------------

\* handler._send
Send(code, body) == responses' = Append(responses, [code |-> code, body |-> body])

\* str(ex) of the ValueError int() raises.
ValueErrorDetails == "invalid literal for int() with base 10"

\* str(ex) of what _http_get raises.
UpstreamErrorDetails == "upstream request failed"

\* The body of the catch-all handler of do_GET.
InternalError(details) == [error |-> "Internal server error", details |-> details]

MissingIdMessage == "Missing 'videoId' or parsable 'url' query param."

\* The commentThreads request of fetch_comment_threads.
ThreadsCall(a) ==
    [endpoint |-> "commentThreads",
     videoId |-> a.video_id,
     parentId |-> "",
     maxResults |-> a.max_results,
     order |-> a.order,
     key |-> a.api_key,
     pageToken |-> IF a.page_token # None /\ a.page_token # <<>> THEN a.page_token ELSE None,
     status |-> "pending",
     items |-> <<>>,
     nextPageToken |-> None]

\* The arguments do_GET calls fetch_comment_threads with.
FetchArgs(q, api_key) ==
    [video_id |-> ResolveVideoId(q),
     api_key |-> api_key,
     max_results |-> normalize_params(q.maxResults, q.order)[1],
     page_token |-> q.pageToken,
     order |-> normalize_params(q.maxResults, q.order)[2],
     include_replies |-> q.includeReplies,
     max_replies_per_thread |-> q.maxRepliesPerThread]

\* DoGetParseError answering the malformed integer as a caller error.
DoGetParseError_AsBadRequest ==
    /\ pc = "start"
    /\ ~ParseQuery(query).ok
    /\ Send(400, [error |-> ValueErrorDetails])
    /\ pc' = "done"
    /\ UNCHANGED <<environ, query, args, calls, fetchVars>>

\* do_GET, _parse_query raises: the catch-all answers 500.
DoGetParseError ==
    /\ pc = "start"
    /\ ~ParseQuery(query).ok
    /\ Send(500, InternalError(ValueErrorDetails))
    /\ pc' = "done"
    /\ UNCHANGED <<environ, query, args, calls, fetchVars>>

\* do_GET, no identifier: 400.
DoGetMissingId ==
    /\ pc = "start"
    /\ ParseQuery(query).ok
    /\ ResolveVideoId(ParseQuery(query).q) = <<>>
    /\ Send(400, [error |-> MissingIdMessage])
    /\ pc' = "done"
    /\ UNCHANGED <<environ, query, args, calls, fetchVars>>

\* do_GET, get_env_api_key raises RuntimeError: 500.
DoGetMissingKey ==
    /\ pc = "start"
    /\ ParseQuery(query).ok
    /\ ResolveVideoId(ParseQuery(query).q) # <<>>
    /\ ~get_env_api_key(environ).ok
    /\ Send(500, [error |-> get_env_api_key(environ).error])
    /\ pc' = "done"
    /\ UNCHANGED <<environ, query, args, calls, fetchVars>>

\* do_GET calls fetch_comment_threads, which issues the commentThreads request.
DoGetFetch ==
    /\ pc = "start"
    /\ ParseQuery(query).ok
    /\ ResolveVideoId(ParseQuery(query).q) # <<>>
    /\ get_env_api_key(environ).ok
    /\ args' = FetchArgs(ParseQuery(query).q, get_env_api_key(environ).key)
    /\ calls' = <<ThreadsCall(args')>>
    /\ pc' = "await_threads"
    /\ UNCHANGED <<environ, query, responses, fetchVars>>

\* ------------------------------------------------------------------------
\* api/_youtube.py: _http_get and fetch_comment_threads
\* ------------------------------------------------------------------------

\* Most replies one comments request asks for.
MaxReplyPage == 100

Last(s) == s[Len(s)]

\* The last call, answered.
Answered(status, its, token) ==
    [calls EXCEPT ![Len(calls)] =
        [@ EXCEPT !.status = status, !.items = its, !.nextPageToken = token]]

\* The normalized comment built from a reply of the upstream.
NormalizeReply(r) == [id |-> r, isReply |-> TRUE]

RECURSIVE NormalizeReplies(_)
\* The normalized comments of a list of replies, in its order.
NormalizeReplies(rs) ==
    IF rs = <<>> THEN <<>>
    ELSE <<NormalizeReply(Head(rs))>> \o NormalizeReplies(Tail(rs))

\* (item.get("replies") or {}).get("comments") or [], normalized.
InlineReplies(item) == NormalizeReplies(item.replies)

\* FetchesReplies without the include_replies test.
FetchesReplies_IgnoringFlag(include_replies, reply_count, payload) ==
    reply_count # 0 /\ Len(payload) < reply_count

\* The condition under which the replies of a thread are fetched.
FetchesReplies(include_replies, reply_count, payload) ==
    include_replies /\ reply_count # 0 /\ Len(payload) < reply_count

\* BudgetLeft with <= for <.
BudgetLeft_Inclusive(n, max_replies_per_thread) == n <= max_replies_per_thread

\* The guard of the while loop.
BudgetLeft(n, max_replies_per_thread) == n < max_replies_per_thread

\* BatchLimit asking for a full page whatever is left of the budget.
BatchLimit_FullPage(max_replies_per_thread, n) == MaxReplyPage

\* limit = min(100, max_replies_per_thread - fetched)
BatchLimit(max_replies_per_thread, n) == Min(MaxReplyPage, max_replies_per_thread - n)

\* Breaks without the test for an empty batch.
Breaks_WithoutStallGuard(token, ritems) == token = None \/ token = <<>>

\* if not next_token or not ritems: break
Breaks(token, ritems) == token = None \/ token = <<>> \/ ritems = <<>>

\* RepliesCall asking for the replies of the thread id instead of those of
\* its top-level comment.
RepliesCall_ByThreadId(a, parent_id, limit, token) ==
    [endpoint |-> "comments",
     videoId |-> <<>>,
     parentId |-> items[idx].id,
     maxResults |-> limit,
     order |-> <<>>,
     key |-> a.api_key,
     pageToken |-> IF token # None /\ token # <<>> THEN token ELSE None,
     status |-> "pending",
     items |-> <<>>,
     nextPageToken |-> None]

\* The comments request of one turn of the while loop.
RepliesCall(a, parent_id, limit, token) ==
    [endpoint |-> "comments",
     videoId |-> <<>>,
     parentId |-> parent_id,
     maxResults |-> limit,
     order |-> <<>>,
     key |-> a.api_key,
     pageToken |-> IF token # None /\ token # <<>> THEN token ELSE None,
     status |-> "pending",
     items |-> <<>>,
     nextPageToken |-> None]

\* ThreadEntry reporting as replyCount the number of replies it holds.
ThreadEntry_CountingPayload(item, payload) ==
    [threadId |-> item.id,
     topLevelComment |-> [id |-> item.topLevelComment, isReply |-> FALSE],
     replyCount |-> Len(payload),
     replies |-> payload]

\* The entry normalized_threads.append adds for an item.
ThreadEntry(item, payload) ==
    [threadId |-> item.id,
     topLevelComment |-> [id |-> item.topLevelComment, isReply |-> FALSE],
     replyCount |-> item.totalReplyCount,
     replies |-> payload]

\* CommentPage handing out the token the last while loop ended with.
CommentPage_LastLoopToken(video_id, token, threads) ==
    [videoId |-> video_id, nextPageToken |-> next_token, threads |-> threads]

\* The dict fetch_comment_threads returns.
CommentPage(video_id, token, threads) ==
    [videoId |-> video_id, nextPageToken |-> token, threads |-> threads]

\* UpstreamFails with the while loop catching the failure of a comments
\* request and going on with the replies it has.
UpstreamFails_CaughtInLoop ==
    /\ pc \in {"await_threads", "await_replies"}
    /\ calls' = Answered("failed", <<>>, None)
    /\ IF pc = "await_replies"
       THEN /\ normalized_threads' =
                    Append(normalized_threads, ThreadEntry(items[idx], replies_payload))
            /\ idx' = idx + 1
            /\ pc' = "for_items"
            /\ UNCHANGED responses
       ELSE /\ Send(500, InternalError(UpstreamErrorDetails))
            /\ pc' = "done"
            /\ UNCHANGED <<idx, normalized_threads>>
    /\ UNCHANGED <<environ, query, args, items, next_page_token, replies_payload,
                   fetched, next_token>>

\* _http_get raises (transport failure, timeout, non-2xx status, undecodable
\* body): nothing in fetch_comment_threads catches it, do_GET answers 500.
UpstreamFails ==
    /\ pc \in {"await_threads", "await_replies"}
    /\ calls' = Answered("failed", <<>>, None)
    /\ Send(500, InternalError(UpstreamErrorDetails))
    /\ pc' = "done"
    /\ UNCHANGED <<environ, query, args, fetchVars>>

\* The commentThreads request returns: items and next_page_token are read.
ThreadsRespond ==
    /\ pc = "await_threads"
    /\ \E page \in ThreadPages, token \in ThreadTokens :
        /\ calls' = Answered("ok", page, token)
        /\ items' = page
        /\ next_page_token' = token
    /\ idx' = 1
    /\ normalized_threads' = <<>>
    /\ pc' = "for_items"
    /\ UNCHANGED <<environ, query, args, responses, replies_payload, fetched, next_token>>

\* NextItem entering the while loop with the token the loop before it left
\* behind.
NextItem_KeepingToken ==
    /\ pc = "for_items"
    /\ idx <= Len(items)
    /\ LET item == items[idx]
           payload == InlineReplies(item)
       IN  IF FetchesReplies(args.include_replies, item.totalReplyCount, payload)
           THEN /\ replies_payload' = payload
                /\ fetched' = 0
                /\ pc' = "while"
                /\ UNCHANGED <<idx, normalized_threads, next_token>>
           ELSE /\ replies_payload' = payload
                /\ normalized_threads' =
                        Append(normalized_threads, ThreadEntry(item, payload))
                /\ idx' = idx + 1
                /\ pc' = "for_items"
                /\ UNCHANGED <<fetched, next_token>>
    /\ UNCHANGED <<environ, query, args, calls, items, next_page_token, responses>>

\* One item of the for loop, up to the decision to fetch its replies: either
\* the thread is appended as it is, or the while loop is entered.
NextItem ==
    /\ pc = "for_items"
    /\ idx <= Len(items)
    /\ LET item == items[idx]
           payload == InlineReplies(item)
       IN  IF FetchesReplies(args.include_replies, item.totalReplyCount, payload)
           THEN /\ replies_payload' = payload
                /\ fetched' = 0
                /\ next_token' = None
                /\ pc' = "while"
                /\ UNCHANGED <<idx, normalized_threads>>
           ELSE /\ replies_payload' = payload
                /\ normalized_threads' =
                        Append(normalized_threads, ThreadEntry(item, payload))
                /\ idx' = idx + 1
                /\ pc' = "for_items"
                /\ UNCHANGED <<fetched, next_token>>
    /\ UNCHANGED <<environ, query, args, calls, items, next_page_token, responses>>

\* WhileTest issuing the request of the following page along with the
\* request of this one, without waiting for the first to return.
WhileTest_Prefetching ==
    /\ pc = "while"
    /\ IF BudgetLeft(fetched, args.max_replies_per_thread)
       THEN /\ calls' = calls \o
                    <<RepliesCall(args, items[idx].topLevelComment,
                                  BatchLimit(args.max_replies_per_thread, fetched),
                                  next_token),
                      RepliesCall(args, items[idx].topLevelComment,
                                  BatchLimit(args.max_replies_per_thread, fetched),
                                  next_token)>>
            /\ pc' = "await_replies"
            /\ UNCHANGED <<idx, normalized_threads>>
       ELSE /\ normalized_threads' =
                    Append(normalized_threads, ThreadEntry(items[idx], replies_payload))
            /\ idx' = idx + 1
            /\ pc' = "for_items"
            /\ UNCHANGED calls
    /\ UNCHANGED <<environ, query, args, items, next_page_token, replies_payload,
                   fetched, next_token, responses>>

\* The test of the while loop: with budget left the next comments request is
\* issued, without it the thread is appended.
WhileTest ==
    /\ pc = "while"
    /\ IF BudgetLeft(fetched, args.max_replies_per_thread)
       THEN /\ calls' = Append(calls,
                    RepliesCall(args, items[idx].topLevelComment,
                                BatchLimit(args.max_replies_per_thread, fetched),
                                next_token))
            /\ pc' = "await_replies"
            /\ UNCHANGED <<idx, normalized_threads>>
       ELSE /\ normalized_threads' =
                    Append(normalized_threads, ThreadEntry(items[idx], replies_payload))
            /\ idx' = idx + 1
            /\ pc' = "for_items"
            /\ UNCHANGED calls
    /\ UNCHANGED <<environ, query, args, items, next_page_token, replies_payload,
                   fetched, next_token, responses>>

\* RepliesRespond leaving out the items of the batch whose id the thread
\* already holds.
RepliesRespond_Deduplicating ==
    /\ pc = "await_replies"
    /\ \E ritems \in ReplyBatches, token \in ReplyTokens(Len(calls)) :
        /\ calls' = Answered("ok", ritems, token)
        /\ replies_payload' = replies_payload \o
                NormalizeReplies(SelectSeq(ritems,
                    LAMBDA r : \A j \in 1..Len(replies_payload) : replies_payload[j].id # r))
        /\ fetched' = fetched + Len(ritems)
        /\ next_token' = token
        /\ IF Breaks(token, ritems)
           THEN /\ normalized_threads' =
                        Append(normalized_threads, ThreadEntry(items[idx], replies_payload'))
                /\ idx' = idx + 1
                /\ pc' = "for_items"
           ELSE /\ pc' = "while"
                /\ UNCHANGED <<idx, normalized_threads>>
    /\ UNCHANGED <<environ, query, args, items, next_page_token, responses>>

\* A comments request returns: its items are appended, fetched and next_token
\* are updated, and the loop goes on or breaks.
RepliesRespond ==
    /\ pc = "await_replies"
    /\ \E ritems \in ReplyBatches, token \in ReplyTokens(Len(calls)) :
        /\ calls' = Answered("ok", ritems, token)
        /\ replies_payload' = replies_payload \o NormalizeReplies(ritems)
        /\ fetched' = fetched + Len(ritems)
        /\ next_token' = token
        /\ IF Breaks(token, ritems)
           THEN /\ normalized_threads' =
                        Append(normalized_threads, ThreadEntry(items[idx], replies_payload'))
                /\ idx' = idx + 1
                /\ pc' = "for_items"
           ELSE /\ pc' = "while"
                /\ UNCHANGED <<idx, normalized_threads>>
    /\ UNCHANGED <<environ, query, args, items, next_page_token, responses>>

\* The for loop is over: fetch_comment_threads returns and do_GET sends 200.
Return ==
    /\ pc = "for_items"
    /\ idx > Len(items)
    /\ Send(200, CommentPage(args.video_id, next_page_token, normalized_threads))
    /\ pc' = "done"
    /\ UNCHANGED <<environ, query, args, calls, fetchVars>>

Next ==
    \/ DoGetParseError
    \/ DoGetMissingId
    \/ DoGetMissingKey
    \/ DoGetFetch
    \/ UpstreamFails
    \/ ThreadsRespond
    \/ NextItem
    \/ WhileTest
    \/ RepliesRespond
    \/ Return

Spec == Init /\ [][Next]_vars

\* The requests termination is checked for: every reply-loop request, and
\* the front requests that differ in videoId and in the two integers.
LiveRequests ==
    LoopRequests
        \cup {r \in FrontRequests : r.url = <<>> /\ r.pageToken = <<>> /\ r.order = <<>>}

LiveInit == Init /\ query \in LiveRequests

\* The upstream answers every request (with a response or a failure) and the
\* handler, which nothing preempts, runs on after every answer.
FairSpec == LiveInit /\ [][Next]_vars /\ WF_vars(Next)

\* ------------------------------------------------------------------------
\* Vocabulary of the properties
\* ------------------------------------------------------------------------

\* do_GET has answered with this status code.
Sent(code) == responses # <<>> /\ responses[1].code = code

\* The CommentPage of a 200 answer.
SentPage == responses[1].body

\* The item of the commentThreads response whose top-level comment is parent.
ItemOf(parent) == CHOOSE it \in Range(items) : it.topLevelComment = parent

IsRepliesCall(i) == calls[i].endpoint = "comments"

\* The positions in calls of the comments requests of one thread.
RepliesCallsOf(parent) ==
    {i \in 1..Len(calls) : IsRepliesCall(i) /\ calls[i].parentId = parent}

RECURSIVE FetchedUpTo(_, _)
\* How many replies the comments responses 1..n of one thread delivered.
FetchedUpTo(parent, n) ==
    IF n = 0 THEN 0
    ELSE FetchedUpTo(parent, n - 1)
            + (IF n \in RepliesCallsOf(parent) THEN Len(calls[n].items) ELSE 0)

RECURSIVE BatchesUpTo(_, _)
\* The items the comments responses 1..n of one thread delivered, in the
\* order of the responses and, within a response, of its items.
BatchesUpTo(parent, n) ==
    IF n = 0 THEN <<>>
    ELSE BatchesUpTo(parent, n - 1)
            \o (IF n \in RepliesCallsOf(parent) THEN calls[n].items ELSE <<>>)

\* The ids of a list of normalized comments.
IdsOf(comments) == [j \in 1..Len(comments) |-> comments[j].id]

\* ------------------------------------------------------------------------
\* C1 - C5
\* ------------------------------------------------------------------------

\* C1 (as claimed): every thread of a returned CommentPage holds at most
\* max_replies_per_thread replies, whatever include_replies is and whatever
\* the upstream answered.
C1_RepliesWithinBudget ==
    Sent(200) =>
        \A t \in 1..Len(SentPage.threads) :
            Len(SentPage.threads[t].replies) <= args.max_replies_per_thread

\* C2 (as claimed): inline replies count against the budget. For a finished
\* thread with include_replies, k inline replies, k <= max_replies_per_thread,
\* a replyCount above k, and an upstream that answered every comments request
\* of the thread with a full batch and a continuation token, the replies are
\* exactly max_replies_per_thread: the k inline ones and max - k fetched ones.
C2_InlineCountsAgainstBudget ==
    \A t \in 1..Len(normalized_threads) :
        LET item == items[t]
            k == Len(item.replies)
            mine == RepliesCallsOf(item.topLevelComment)
            fullBatches ==
                \A i \in mine :
                    /\ calls[i].status = "ok"
                    /\ Len(calls[i].items) = calls[i].maxResults
                    /\ calls[i].nextPageToken # None
        IN  (/\ args.include_replies
             /\ item.totalReplyCount > k
             /\ k <= args.max_replies_per_thread
             /\ fullBatches)
            => /\ Len(normalized_threads[t].replies) = args.max_replies_per_thread
               /\ FetchedUpTo(item.topLevelComment, Len(calls))
                    = args.max_replies_per_thread - k

\* C3 (as claimed): every comments request asks for min(100, remaining), where
\* remaining is max_replies_per_thread minus the replies collected so far for
\* the thread, the inline ones and those of the earlier batches.
C3_BatchSizedByRepliesCollected ==
    \A i \in 1..Len(calls) :
        IsRepliesCall(i) =>
            calls[i].maxResults =
                Min(MaxReplyPage,
                    args.max_replies_per_thread
                        - (Len(ItemOf(calls[i].parentId).replies)
                           + FetchedUpTo(calls[i].parentId, i - 1)))

\* C4: with include_replies false no comments request is ever issued and the
\* replies of every thread are its inline replies, in the upstream's order,
\* whatever replyCount says.
C4_InlineOnlyWhenRepliesOff ==
    ~args.include_replies =>
        /\ \A i \in 1..Len(calls) : ~IsRepliesCall(i)
        /\ \A t \in 1..Len(normalized_threads) :
                IdsOf(normalized_threads[t].replies) = items[t].replies
        /\ Sent(200) =>
                /\ Len(SentPage.threads) = Len(items)
                /\ \A t \in 1..Len(items) :
                        IdsOf(SentPage.threads[t].replies) = items[t].replies

\* C4 happens: a page is returned with include_replies false that holds a
\* thread with two inline replies and a larger replyCount.
C4_Witness ==
    /\ Sent(200)
    /\ ~args.include_replies
    /\ \E t \in 1..Len(items) :
        /\ Len(items[t].replies) = 2
        /\ items[t].totalReplyCount > 2
        /\ IdsOf(SentPage.threads[t].replies) = <<"r2", "r1">>

RequestsWithinBudget ==
    \A it \in Range(items) :
        Cardinality(RepliesCallsOf(it.topLevelComment))
            <= Max(0, args.max_replies_per_thread)

\* C6: whatever the upstream answers, as long as it answers, every while loop
\* is left and the request is answered, and no thread's loop issues more than
\* max(0, max_replies_per_thread) comments requests.
C6_LoopTerminatesWithinBudget ==
    /\ []RequestsWithinBudget
    /\ [](pc \in {"while", "await_replies"} => <>(pc \in {"for_items", "done"}))
    /\ <>(pc = "done" /\ Len(responses) = 1)

\* C6 happens: a page is returned after a thread's loop used up a budget of
\* two or more requests against an upstream that sent a token every time.
C6_Witness ==
    /\ Sent(200)
    /\ args.max_replies_per_thread >= 2
    /\ \E it \in Range(items) :
        /\ Cardinality(RepliesCallsOf(it.topLevelComment)) = args.max_replies_per_thread
        /\ \A i \in RepliesCallsOf(it.topLevelComment) : calls[i].nextPageToken # None

\* The request yields no identifier: no videoId, and no url or one from which
\* none can be extracted.
NoIdentifier ==
    /\ Strip(query.videoId) = <<>>
    /\ \/ Strip(query.url) = <<>>
       \/ extract_video_id_from_url(Strip(query.url)) = None

\* maxResults and maxRepliesPerThread are absent or integer literals.
IntegerParams ==
    /\ query.maxResults = <<>> \/ ParseInt(query.maxResults).ok
    /\ query.maxRepliesPerThread = <<>> \/ ParseInt(query.maxRepliesPerThread).ok

\* The credential is unset, empty or whitespace only.
KeyMissing == environ = None \/ Strip(environ) = <<>>

\* The request was answered once, with this code and a body holding these fields.
AnsweredWith(code, fields) ==
    /\ Len(responses) = 1
    /\ responses[1].code = code
    /\ DOMAIN responses[1].body = fields

\* C7 (as claimed): a request that yields no identifier is answered 400 with
\* an error field and without any upstream call, whatever the credential.
C7_NoIdentifierIs400 ==
    NoIdentifier =>
        /\ calls = <<>>
        /\ pc = "done" => AnsweredWith(400, {"error"})

\* C7 (amended): the same, for requests whose maxResults and
\* maxRepliesPerThread are absent or integer literals.
C7_NoIdentifierIs400WhenParsed ==
    (NoIdentifier /\ IntegerParams) =>
        /\ calls = <<>>
        /\ pc = "done" =>
            /\ AnsweredWith(400, {"error"})
            /\ responses[1].body.error = MissingIdMessage

\* C7 happens: a url without identifier and no credential either: 400.
C7_Witness ==
    /\ pc = "done"
    /\ Sent(400)
    /\ Strip(query.url) # <<>>
    /\ NoIdentifier
    /\ KeyMissing

\* C8 (as claimed): without credential every request with an identifier is
\* answered 500 with an error field naming the missing configuration, and
\* without any upstream call.
C8_MissingKeyIs500 ==
    (KeyMissing /\ ~NoIdentifier) =>
        /\ calls = <<>>
        /\ pc = "done" =>
            /\ AnsweredWith(500, {"error"})
            /\ responses[1].body.error = MissingKeyMessage

\* C8 (amended): the same, for requests whose maxResults and
\* maxRepliesPerThread are absent or integer literals.
C8_MissingKeyIs500WhenParsed ==
    (KeyMissing /\ ~NoIdentifier /\ IntegerParams) =>
        /\ calls = <<>>
        /\ pc = "done" =>
            /\ AnsweredWith(500, {"error"})
            /\ responses[1].body.error = MissingKeyMessage

\* C8 happens: a whitespace-only credential and an identifier taken from the
\* url: 500 naming the configuration.
C8_Witness ==
    /\ pc = "done"
    /\ environ = <<" ">>
    /\ Strip(query.videoId) = <<>>
    /\ ~NoIdentifier
    /\ Sent(500)
    /\ responses[1].body.error = MissingKeyMessage

\* C9: a failed upstream call is the last call of the request and is answered
\* 500 with error and details, never with a page; a 200 answer is sent only
\* after calls that all succeeded; the request is answered at most once.
C9_FailFast ==
    /\ Len(responses) <= 1
    /\ \A i \in 1..Len(calls) :
        calls[i].status = "failed" =>
            /\ i = Len(calls)
            /\ pc = "done"
            /\ AnsweredWith(500, {"error", "details"})
    /\ Sent(200) => \A i \in 1..Len(calls) : calls[i].status = "ok"
    /\ pc = "done" => \A i \in 1..Len(calls) : calls[i].status # "pending"

\* C9 happens: the comments request of the second thread fails after a batch
\* of it and the whole first thread were collected; the answer is 500.
C9_Witness ==
    /\ pc = "done"
    /\ Sent(500)
    /\ Len(items) = 2
    /\ Len(calls) >= 3
    /\ Last(calls).status = "failed"
    /\ IsRepliesCall(Len(calls))
    /\ Len(normalized_threads) = 1
    /\ Len(replies_payload) > Len(items[2].replies)

\* C10: the first call of fetch_comment_threads is its only commentThreads
\* request, and the nextPageToken of the returned page is that response's
\* token, whatever tokens the comments responses carried.
C10_OneThreadPage ==
    /\ args # NoArgs => calls # <<>>
    /\ \A i \in 1..Len(calls) : (calls[i].endpoint = "commentThreads") <=> (i = 1)
    /\ Sent(200) => SentPage.nextPageToken = calls[1].nextPageToken

\* C10 happens: a page of two threads is returned with the token of the
\* commentThreads response, although a comments response carried a token of
\* its own and the last while loop ended without one.
C10_Witness ==
    /\ Sent(200)
    /\ calls[1].nextPageToken # None
    /\ Len(items) = 2
    /\ \E i \in 2..Len(calls) : calls[i].nextPageToken # None
    /\ next_token = None

\* ------------------------------------------------------------------------
\* normalize_params on its own
\* ------------------------------------------------------------------------

\* How far beyond either end of the range normalize_params clamps to the
\* integers tried for maxResults go.
ClampMargin == 2

RECURSIVE DecimalDigits(_)
\* The decimal digits of a natural number.
DecimalDigits(n) ==
    IF n < 10 THEN <<Digits[n + 1]>>
    ELSE DecimalDigits(n \div 10) \o <<Digits[(n % 10) + 1]>>

\* str(n)
Decimal(n) == IF n < 0 THEN <<"-">> \o DecimalDigits(0 - n) ELSE DecimalDigits(n)

\* The orders tried: absent, the two accepted ones in several cases, and
\* values that are neither.
NormOrders ==
    {<<>>, Time, <<"T","I","M","E">>, <<"T","i","m","e">>, <<"t","i","m","E">>,
     Relevance, <<"R","e","l","e","v","a","n","c","e">>,
     <<"t","i","m">>, <<"t","i","m","e","s">>, <<"d","a","t","e">>}

\* Requests that differ in maxResults and order only.
NormRequests ==
    [url : {<<>>},
     videoId : {VideoA},
     pageToken : {<<>>},
     order : NormOrders,
     includeReplies : {<<>>},
     maxResults : {<<>>} \cup
        {Decimal(n) : n \in (0 - ClampMargin)..(MaxPageSize + ClampMargin)},
     maxRepliesPerThread : {<<>>}]

\* Before the call: the state Init describes, for a request of NormRequests.
NormInit ==
    /\ environ \in Environs
    /\ query \in NormRequests
    /\ pc = "start"
    /\ args = NoArgs
    /\ calls = <<>>
    /\ items = <<>>
    /\ next_page_token = None
    /\ idx = 0
    /\ replies_payload = <<>>
    /\ fetched = 0
    /\ next_token = None
    /\ normalized_threads = <<>>
    /\ responses = <<>>

\* do_GET up to the call of normalize_params: the query is parsed and
\* max_results, order are what normalize_params returns for it.
NormalizeParams ==
    /\ pc = "start"
    /\ ParseQuery(query).ok
    /\ LET q == ParseQuery(query).q
       IN  args' = [NoArgs EXCEPT
                        !.max_results = normalize_params(q.maxResults, q.order)[1],
                        !.order = normalize_params(q.maxResults, q.order)[2]]
    /\ pc' = "normalized"
    /\ UNCHANGED <<environ, query, calls, responses, fetchVars>>

NormNext == NormalizeParams

NormSpec == NormInit /\ [][NormNext]_vars

\* ------------------------------------------------------------------------
\* C11 - C13
\* ------------------------------------------------------------------------

\* C11: normalize_params agrees with its reference. For an integer n the
\* effective max is n clamped to 1..100, for an absent max it is 20; the
\* effective order is "time" when the order given is "time" in any mix of
\* upper and lower case, and "relevance" for an absent order and for every
\* other value.
C11_NormalizeAgreesWithReference ==
    pc = "normalized" =>
        LET q == ParseQuery(query).q
            n == q.maxResults
            clamped == IF n = <<>> THEN 20
                       ELSE IF n[1] < 1 THEN 1
                       ELSE IF n[1] > 100 THEN 100
                       ELSE n[1]
            foldsToTime ==
                /\ q.order # None
                /\ Len(q.order) = 4
                /\ q.order[1] \in {"t", "T"}
                /\ q.order[2] \in {"i", "I"}
                /\ q.order[3] \in {"m", "M"}
                /\ q.order[4] \in {"e", "E"}
        IN  /\ args.max_results = clamped
            /\ args.order = IF foldsToTime THEN Time ELSE Relevance

\* C11 happens: maxResults=101 with order=TIME came out as 100 and "time".
C11_Witness ==
    /\ pc = "normalized"
    /\ query.maxResults = <<"1","0","1">>
    /\ query.order = <<"T","I","M","E">>
    /\ args.max_results = 100
    /\ args.order = Time

\* C12 (as claimed): a videoId that is not empty is, as it stands, the
\* identifier the commentThreads request carries, whatever url holds.
C12_VideoIdTakesPrecedence ==
    (calls # <<>> /\ query.videoId # <<>>) => calls[1].videoId = query.videoId

\* C12 (amended): a videoId that is not empty once its surrounding whitespace
\* is stripped is, stripped, the identifier the commentThreads request
\* carries, whatever url holds; otherwise the identifier is the one extracted
\* from url.
C12_StrippedVideoIdTakesPrecedence ==
    calls # <<>> =>
        IF Strip(query.videoId) # <<>>
        THEN calls[1].videoId = Strip(query.videoId)
        ELSE calls[1].videoId = extract_video_id_from_url(Strip(query.url))

\* C12 happens: a request with videoId=vidA and a short link to abc has
\* issued its commentThreads request for vidA.
C12_Witness ==
    /\ calls # <<>>
    /\ query.videoId = VideoA
    /\ query.url = UrlShort
    /\ extract_video_id_from_url(query.url) = <<"a","b","c">>
    /\ calls[1].endpoint = "commentThreads"
    /\ calls[1].videoId = VideoA

\* ------------------------------------------------------------------------
\* extract_video_id_from_url on its own
\* ------------------------------------------------------------------------

UrlSchemes == {<<"h","t","t","p","s",":","/","/">>, <<"h","t","t","p",":","/","/">>}

\* The short-link host, hosts that only hold or end in it, a youtube.com host
\* and a foreign one.
UrlHosts ==
    {ShortHost,
     <<"w","w","w",".">> \o ShortHost,
     ShortHost \o <<".","e","x">>,
     <<"m",".">> \o LongHostSuffix,
     <<"e","x","a","m","p","l","e",".","c","o","m">>}

\* An 11-character identifier.
UrlId == <<"d","Q","w","4","w","9","W","g","X","c","Q">>

\* Paths: none, the bare slash, one segment, several segments, several
\* leading slashes, a trailing slash, an embed path.
UrlPaths ==
    {<<>>,
     <<"/">>,
     <<"/","a","b","c">>,
     <<"/","a","b","c","/","d","e","f">>,
     <<"/","/","a","b","c">>,
     <<"/","a","b","c","/">>,
     <<"/">> \o UrlId,
     EmbedPrefix \o UrlId}

UrlQueries == {<<>>, <<"?","t","=","5">>, <<"?","v","=">> \o UrlId}

ExtractUrls == {s \o h \o p \o q : s \in UrlSchemes, h \in UrlHosts, p \in UrlPaths, q \in UrlQueries}

\* Requests that differ in url only.
ExtractRequests ==
    [url : ExtractUrls,
     videoId : {<<>>},
     pageToken : {<<>>},
     order : {<<>>},
     includeReplies : {<<>>},
     maxResults : {<<>>},
     maxRepliesPerThread : {<<>>}]

\* Before the call: the state Init describes, for a request of ExtractRequests.
ExtractInit ==
    /\ environ \in Environs
    /\ query \in ExtractRequests
    /\ pc = "start"
    /\ args = NoArgs
    /\ calls = <<>>
    /\ items = <<>>
    /\ next_page_token = None
    /\ idx = 0
    /\ replies_payload = <<>>
    /\ fetched = 0
    /\ next_token = None
    /\ normalized_threads = <<>>
    /\ responses = <<>>

\* do_GET up to the call of extract_video_id_from_url, for a request without
\* videoId: video_id is what the function returns, None included.
ExtractVideoId ==
    /\ pc = "start"
    /\ ParseQuery(query).ok
    /\ ParseQuery(query).q.videoId = <<>>
    /\ ParseQuery(query).q.url # <<>>
    /\ args' = [NoArgs EXCEPT
                    !.video_id = extract_video_id_from_url(ParseQuery(query).q.url)]
    /\ pc' = "extracted"
    /\ UNCHANGED <<environ, query, calls, responses, fetchVars>>

ExtractNext == ExtractVideoId

ExtractSpec == ExtractInit /\ [][ExtractNext]_vars

\* C13 (as claimed): for a URL whose host is exactly youtu.be the function
\* returns the first segment of the path, leading slashes set aside, and
\* None when that segment is empty, whatever else the URL holds.
C13_ShortLinkFirstSegment ==
    (pc = "extracted" /\ urlparse(query.url).netloc = ShortHost) =>
        LET path == urlparse(query.url).path
            rest == LStrip(path, {"/"})
            segment == SubSeq(rest, 1, FirstOf(rest, {"/"}) - 1)
        IN  args.video_id = IF segment = <<>> THEN None ELSE segment

\* ------------------------------------------------------------------------
\* C14 - C20
\* ------------------------------------------------------------------------

\* C14: the upstream calls of a request are totally ordered. Only the latest
\* call can be in flight and every call before it has returned; the first
\* call is the commentThreads request and every later one a comments request;
\* the comments requests of a thread earlier in the page all come before
\* those of a thread later in the page.
C14_CallsTotallyOrdered ==
    LET position(parent) ==
            CHOOSE k \in 1..Len(items) : items[k].topLevelComment = parent
    IN  /\ \A i \in 1..Len(calls) :
            /\ calls[i].status = "pending" => i = Len(calls)
            /\ i < Len(calls) => calls[i].status = "ok"
            /\ IsRepliesCall(i) <=> i > 1
        /\ \A i, j \in 2..Len(calls) :
            i < j => position(calls[i].parentId) <= position(calls[j].parentId)

\* C14 happens: a request was answered 200 after comments requests for both
\* threads of its page, two of them for the same thread.
C14_Witness ==
    /\ Sent(200)
    /\ Len(items) = 2
    /\ RepliesCallsOf(items[1].topLevelComment) # {}
    /\ RepliesCallsOf(items[2].topLevelComment) # {}
    /\ Len(calls) >= 4
    /\ \A i \in 1..Len(calls) : calls[i].status = "ok"

\* C15: with include_replies on, the replies of every finished thread, and of
\* every thread of the page sent, are its inline replies in upstream order
\* followed by the items of its comments responses, response after response
\* and item after item: nothing dropped, reordered or deduplicated.
C15_RepliesAreInlineThenBatches ==
    args.include_replies =>
        /\ \A t \in 1..Len(normalized_threads) :
            IdsOf(normalized_threads[t].replies) =
                items[t].replies \o BatchesUpTo(items[t].topLevelComment, Len(calls))
        /\ Sent(200) => SentPage.threads = normalized_threads

\* C15 happens: a thread of the page sent holds inline replies and the items
\* of two comments responses, one id more than once.
C15_Witness ==
    /\ Sent(200)
    /\ args.include_replies
    /\ \E t \in 1..Len(SentPage.threads) :
        LET replies == IdsOf(SentPage.threads[t].replies)
            batches == RepliesCallsOf(items[t].topLevelComment)
        IN  /\ items[t].replies # <<>>
            /\ Cardinality(batches) = 2
            /\ \A i \in batches : calls[i].items # <<>>
            /\ Len(replies) > Len(items[t].replies) + 1
            /\ \E i, j \in 1..Len(replies) : i # j /\ replies[i] = replies[j]

\* C16: the first comments request of a thread carries no page token, and
\* every later one carries the nextPageToken of the comments response just
\* before it, which belongs to the same thread; no token of another thread
\* or of the commentThreads response is carried.
C16_TokensChainWithinThread ==
    \A i \in 2..Len(calls) :
        IF \E k \in RepliesCallsOf(calls[i].parentId) : k < i
        THEN /\ calls[i - 1].parentId = calls[i].parentId
             /\ calls[i - 1].nextPageToken # None
             /\ calls[i].pageToken = calls[i - 1].nextPageToken
        ELSE calls[i].pageToken = None

\* C16 happens: the commentThreads response came with a token, the first
\* thread had two comments requests, the second carrying the token of the
\* first, its loop ended on a response with a token, and the second thread
\* started without one.
C16_Witness ==
    /\ Len(items) = 2
    /\ Len(calls) >= 4
    /\ calls[1].nextPageToken # None
    /\ calls[2].parentId = items[1].topLevelComment
    /\ calls[2].pageToken = None
    /\ calls[3].parentId = items[1].topLevelComment
    /\ calls[3].pageToken = calls[2].nextPageToken
    /\ calls[3].pageToken # None
    /\ calls[3].nextPageToken # None
    /\ calls[4].parentId = items[2].topLevelComment
    /\ calls[4].pageToken = None

\* C17: the threads of the page sent are, entry for entry and in the same
\* order, the items of the commentThreads response, each with that item's id
\* as threadId and its totalReplyCount as replyCount; while the request runs
\* the threads finished so far are the first items of the response.
C17_OneThreadPerItem ==
    /\ Len(normalized_threads) <= Len(items)
    /\ \A t \in 1..Len(normalized_threads) :
        /\ normalized_threads[t].threadId = items[t].id
        /\ normalized_threads[t].replyCount = items[t].totalReplyCount
    /\ Sent(200) =>
        /\ items = calls[1].items
        /\ Len(SentPage.threads) = Len(calls[1].items)
        /\ \A t \in 1..Len(calls[1].items) :
            /\ SentPage.threads[t].threadId = calls[1].items[t].id
            /\ SentPage.threads[t].replyCount = calls[1].items[t].totalReplyCount

\* C17 happens: a page of two threads was sent; replies were fetched for the
\* first one, which holds another number of replies than upstream reported,
\* and none for the second.
C17_Witness ==
    /\ Sent(200)
    /\ Len(SentPage.threads) = 2
    /\ SentPage.threads[1].threadId = "t2"
    /\ SentPage.threads[2].threadId = "t1"
    /\ RepliesCallsOf(items[1].topLevelComment) # {}
    /\ RepliesCallsOf(items[2].topLevelComment) = {}
    /\ Len(SentPage.threads[1].replies) # SentPage.threads[1].replyCount
    /\ SentPage.threads[1].replyCount # SentPage.threads[2].replyCount

\* C18: a comments request is issued only with include_replies on and for
\* the top-level comment of a thread whose totalReplyCount exceeds the number
\* of its inline replies; and when both hold and max_replies_per_thread >= 1,
\* a thread that is finished has had at least one comments request, with its
\* top-level comment's id as parentId.
C18_RepliesRequestedWhenMissing ==
    /\ \A i \in 2..Len(calls) :
        /\ args.include_replies
        /\ \E k \in 1..Len(items) : items[k].topLevelComment = calls[i].parentId
        /\ ItemOf(calls[i].parentId).totalReplyCount
                > Len(ItemOf(calls[i].parentId).replies)
    /\ pc = "await_replies" => Last(calls).parentId = items[idx].topLevelComment
    /\ \A t \in 1..Len(normalized_threads) :
        (/\ args.include_replies
         /\ items[t].totalReplyCount > Len(items[t].replies)
         /\ args.max_replies_per_thread >= 1)
            => RepliesCallsOf(items[t].topLevelComment) # {}

\* C18 happens: with include_replies on and a budget of at least one, the
\* page sent has a thread with more replies reported than inline, for whose
\* top-level comment a comments request was issued, and a thread with no
\* more replies reported than inline, for which none was.
C18_Witness ==
    /\ Sent(200)
    /\ args.include_replies
    /\ args.max_replies_per_thread >= 1
    /\ Len(items) = 2
    /\ items[1].totalReplyCount > Len(items[1].replies)
    /\ items[1].replies # <<>>
    /\ calls[2].parentId = items[1].topLevelComment
    /\ items[2].totalReplyCount = Len(items[2].replies)
    /\ items[2].totalReplyCount > 0
    /\ RepliesCallsOf(items[2].topLevelComment) = {}

\* C19: a request whose maxResults or maxRepliesPerThread is present and not
\* an integer literal never issues an upstream call and, once answered, was
\* answered 500 with a body holding error and details, not 400.
C19_MalformedIntegerIs500 ==
    ~IntegerParams =>
        /\ calls = <<>>
        /\ pc \in {"start", "done"}
        /\ ~Sent(400)
        /\ pc = "done" => AnsweredWith(500, {"error", "details"})

\* C19 happens: a request with maxResults=abc, no identifier and no
\* credential was answered 500 with error and details.
C19_Witness ==
    /\ pc = "done"
    /\ query.maxResults = <<"a","b","c">>
    /\ NoIdentifier
    /\ KeyMissing
    /\ calls = <<>>
    /\ AnsweredWith(500, {"error", "details"})
    /\ responses[1].body.details = ValueErrorDetails

\* C20: if every comments response holds no more items than the maxResults of
\* its request, then every comments request asks for 1..100 items, the
\* replies fetched for a thread never exceed max_replies_per_thread, from the
\* first turn of its while loop on, and a thread holds at most its inline
\* replies plus max(0, max_replies_per_thread) replies. The limit the loop
\* test would lead to with a budget around the page size of 100, which no
\* request of the model asks for, is within 1..100 as well.
C20_FetchedWithinBudgetWhenUpstreamObeys ==
    (\A i \in 2..Len(calls) : Len(calls[i].items) <= calls[i].maxResults) =>
        /\ \A i \in 2..Len(calls) :
            /\ calls[i].maxResults \in 1..100
            /\ FetchedUpTo(calls[i].parentId, i) <= args.max_replies_per_thread
        /\ (\/ pc = "await_replies"
            \/ pc = "while" /\ RepliesCallsOf(items[idx].topLevelComment) # {}) =>
                /\ fetched = FetchedUpTo(items[idx].topLevelComment, Len(calls))
                /\ fetched <= args.max_replies_per_thread
        /\ \A t \in 1..Len(normalized_threads) :
            Len(normalized_threads[t].replies)
                <= Len(items[t].replies) + Max(0, args.max_replies_per_thread)
        /\ Sent(200) => SentPage.threads = normalized_threads
        /\ pc = "while" =>
            \A budget \in (MaxReplyPage - 1)..(MaxReplyPage + 1) :
                BudgetLeft(fetched, budget) =>
                    BatchLimit(budget, fetched) \in 1..100

\* C20 happens: every response kept to its maxResults, and a thread of the
\* page sent holds its inline replies and as many fetched ones as the
\* largest budget allows, fetched by requests of decreasing maxResults.
C20_Witness ==
    /\ Sent(200)
    /\ args.include_replies
    /\ args.max_replies_per_thread = MaxBudget
    /\ \A i \in 2..Len(calls) : Len(calls[i].items) <= calls[i].maxResults
    /\ \E t \in 1..Len(SentPage.threads) :
        LET batches == RepliesCallsOf(items[t].topLevelComment)
        IN  /\ items[t].replies # <<>>
            /\ Cardinality(batches) >= 2
            /\ \E i, j \in batches : calls[i].maxResults > calls[j].maxResults
            /\ Len(SentPage.threads[t].replies)
                    = Len(items[t].replies) + args.max_replies_per_thread

====
